---- MODULE Spec2Model ----
(***************************************************************************)
(* Model of cpu_temps.py: the session runner report_cpu_temps() and the    *)
(* module-level backoff supervisor loop.                                   *)
(*                                                                         *)
(* Time is counted in clock ticks of 0.05 s.  Clock readings are kept      *)
(* relative to the reading taken at the start of the running session (the  *)
(* code only ever uses differences of readings).                           *)
(* backoff_skip and max_backoff_skip are floats; they are kept as integers *)
(* in units of 1/Scale, so 2.0 is 2 * Scale.                               *)
(* Temperatures are kept in tenths of a degree, so 42.5 is 425.            *)
(***************************************************************************)
EXTENDS Integers, Sequences, FiniteSets, TLC

\* ---- bounds of the model ----
Scale == 2
MaxInterval == 2
BackOffStep == 3
MaxLatency == 1
MaxOversleep == 1
Horizon == 4

\* 0.1 s, the floor of the divisor at line 137, in ticks
IntervalFloor == 2

Max(a, b) == IF a >= b THEN a ELSE b
Min(a, b) == IF a <= b THEN a ELSE b
CeilDiv(a, b) == (a + b - 1) \div b

Intervals == 1..MaxInterval
BackOffMaxIntervals == {BackOffStep, 2 * BackOffStep}
AccessPaths == {<<"a", "b">>, <<"a", "c">>}
Latencies == 0..MaxLatency
Oversleeps == 0..MaxOversleep

\* ---- parsed sensor output (json5 values) ----
JNum(n) == [type |-> "num", num |-> n]
JStr(s) == [type |-> "str", str |-> s]
JBool(b) == [type |-> "bool", bool |-> b]
JNull == [type |-> "null"]
JObj(m) == [type |-> "obj", obj |-> m]

\* what `sensors -j` can print on stdout (empty when the command fails)
Stdouts ==
  { "",
    "{\"a\":{\"b\":42.5}}",
    "{\"a\":{\"b\":\"42.5\"}}",
    "{\"a\":{\"b\":\"n/a\"}}",
    "{\"a\":{\"b\":null}}",
    "{\"a\":{\"b\":true}}",
    "{\"a\":{\"b\":{\"c\":61.0}}}",
    "{\"a\":17.0}",
    "{\"a\":{\"b\":42.5}" }

\* json5.loads: the parsed value, or ValueError for text that is not json5
Json5Loads(text) ==
  CASE text = "{\"a\":{\"b\":42.5}}" ->
         [exc |-> "none", node |-> JObj([a |-> JObj([b |-> JNum(425)])])]
    [] text = "{\"a\":{\"b\":\"42.5\"}}" ->
         [exc |-> "none", node |-> JObj([a |-> JObj([b |-> JStr("42.5")])])]
    [] text = "{\"a\":{\"b\":\"n/a\"}}" ->
         [exc |-> "none", node |-> JObj([a |-> JObj([b |-> JStr("n/a")])])]
    [] text = "{\"a\":{\"b\":null}}" ->
         [exc |-> "none", node |-> JObj([a |-> JObj([b |-> JNull])])]
    [] text = "{\"a\":{\"b\":true}}" ->
         [exc |-> "none", node |-> JObj([a |-> JObj([b |-> JBool(TRUE)])])]
    [] text = "{\"a\":{\"b\":{\"c\":61.0}}}" ->
         [exc |-> "none",
          node |-> JObj([a |-> JObj([b |-> JObj([c |-> JNum(610)])])])]
    [] text = "{\"a\":17.0}" ->
         [exc |-> "none", node |-> JObj([a |-> JNum(170)])]
    [] OTHER -> [exc |-> "ValueError", node |-> JNull]

\* result[apc]: only a dict can be indexed by a string key
Subscript(node, apc) ==
  IF node.type = "obj"
  THEN IF apc \in DOMAIN node.obj
       THEN [exc |-> "none", node |-> node.obj[apc]]
       ELSE [exc |-> "KeyError", node |-> JNull]
  ELSE [exc |-> "TypeError", node |-> JNull]

\* for apc in temp_access_path: result = result[apc]
RECURSIVE WalkPathReversed(_, _)
WalkPathReversed(node, path) ==
  IF path = <<>>
  THEN [exc |-> "none", node |-> node]
  ELSE LET r == Subscript(node, path[Len(path)])
       IN IF r.exc # "none"
          THEN r
          ELSE WalkPathReversed(r.node, SubSeq(path, 1, Len(path) - 1))
RECURSIVE WalkPath(_, _)
WalkPath(node, path) ==
  IF path = <<>>
  THEN [exc |-> "none", node |-> node]
  ELSE LET r == Subscript(node, Head(path))
       IN IF r.exc # "none" THEN r ELSE WalkPath(r.node, Tail(path))

\* float(str) of the strings that occur
ParseFloat(s) ==
  IF s = "42.5" THEN [exc |-> "none", value |-> 425]
  ELSE [exc |-> "ValueError", value |-> 0]

\* float(result)
ToFloat(node) ==
  CASE node.type = "num" -> [exc |-> "none", value |-> node.num]
    [] node.type = "bool" ->
         [exc |-> "none", value |-> IF node.bool THEN 10 ELSE 0]
    [] node.type = "str" -> ParseFloat(node.str)
    [] OTHER -> [exc |-> "TypeError", value |-> 0]

\* lines 98-102: the reading, or the exception the statements raise
ReadSensor(text, path) ==
  LET parsed == Json5Loads(text)
  IN IF parsed.exc # "none"
     THEN [exc |-> parsed.exc, value |-> 0]
     ELSE LET leaf == WalkPath(parsed.node, path)
          IN IF leaf.exc # "none"
             THEN [exc |-> leaf.exc, value |-> 0]
             ELSE ToFloat(leaf.node)

\* the exception classes of the except clauses
ConnectCaughtInfluxOnly == {"InfluxDBError"}
ConnectCaught == {"InfluxDBError", "HTTPError"}
SensorCaughtNoKeyError == {"OSError", "ValueError"}
SensorCaught == {"OSError", "KeyError", "ValueError"}
SinkCaughtInfluxOnly == {"InfluxDBError"}
SinkCaught == {"InfluxDBError", "HTTPError"}

\* what the sink client raises on a network error or a rejected request
SinkErrors == {"InfluxDBError", "HTTPError"}

\* ---- pure helpers of the two loops ----

\* lines 91, 105 and 124: (last_report_time - start).total_seconds(), with t
\* the clock when the return statement runs
SessionRuntimeToNow(t, lrt, st) == t - st
SessionRuntime(t, lrt, st) == lrt - st

\* lines 113-116: interval - (now - last_report_time)
SleepTimeFixedDelay(iv, t, lrt) == iv
SleepTime(iv, t, lrt) == iv - (t - lrt)

\* line 143: backoff_skip ** random.uniform(1, 2), every value of the grid
\* between b ** 1 and b ** 2 (b and the result in units of 1/Scale)
PowUniformFromZero(b) ==
  {r \in 0..Max(Scale, (b * b) \div Scale) :
     /\ Min(Scale * Scale, b * b) <= r * Scale
     /\ r * Scale <= Max(Scale * Scale, b * b)}
PowUniform(b) ==
  {r \in 0..Max(b, (b * b) \div Scale) :
     /\ Min(b * Scale, b * b) <= r * Scale
     /\ r * Scale <= Max(b * Scale, b * b)}

\* line 136 and line 141: the base value 2.0
BaseSkip == 2 * Scale

\* lines 140-145: the pairs <<backoff_skip, max_backoff_skip>> the decision
\* can leave, from runtime rt (ticks), bs, mbs and interval iv (ticks)
NextBackoffResetToMax(rt, bs, mbs, iv) ==
  IF rt * Scale > bs * iv
  THEN {<<mbs, mbs>>}
  ELSE IF bs < mbs
       THEN {<<IF bs > p THEN p ELSE bs, p>> : p \in PowUniform(bs)}
       ELSE {<<bs, mbs>>}
NextBackoffGrows(rt, bs, mbs, iv) ==
  IF rt * Scale > bs * iv
  THEN {<<BaseSkip, mbs>>}
  ELSE IF bs < mbs
       THEN {<<Min(p, mbs), mbs>> : p \in PowUniform(bs)}
       ELSE {<<bs, mbs>>}
NextBackoff(rt, bs, mbs, iv) ==
  IF rt * Scale > bs * iv
  THEN {<<BaseSkip, mbs>>}
  ELSE IF bs < mbs
       THEN {<<IF bs > p THEN p ELSE bs, p>> : p \in PowUniform(bs)}
       ELSE {<<bs, mbs>>}

\* lines 97-102 on every outcome of the sensor command: subprocess.run
\* raises OSError, which leaves stdout (out) as it was, or the command
\* prints some text
SensorOutcomes(path, out) ==
  {[exc |-> "OSError", value |-> 0, stdout |-> out]} \cup
  {[exc |-> ReadSensor(t, path).exc, value |-> ReadSensor(t, path).value,
    stdout |-> t] : t \in Stdouts}

\* ---- state ----
VARIABLES
  interval,              \* config, ticks
  back_off_max_interval, \* config, ticks
  temp_access_path,      \* config
  backoff_skip,          \* supervisor, units of 1/Scale
  max_backoff_skip,      \* supervisor, units of 1/Scale
  runtime,               \* value report_cpu_temps() returned, ticks
  bt,                    \* delay of the last backoff sleep, ticks/Scale
  now,                   \* the clock
  start,                 \* report_cpu_temps local
  last_report_time,      \* report_cpu_temps local
  result,                \* report_cpu_temps local, tenths of a degree
  stdout,                \* report_cpu_temps local, the sensor command's output
  pc,                    \* position of the single control thread
  failure,               \* history: how the last ended session ended
  prev_report_time,      \* history: last_report_time of the previous write of
                         \*   this session, -1 if none
  elapsed,               \* history: now - last_report_time read at line 115
  overslept,             \* history: what the pacing sleep overslept
  last_success,          \* history: last_report_time of the last successful
                         \*   write of this session, -1 if none
  sleeps,                \* history: backoff sleeps since the last session end
  connects,              \* history: connection setups tried in this session
  acquired,              \* history: a sensor acquisition ran in this session
  wrote,                 \* history: a write was tried in this session
  slept                  \* history: what the last pacing step asked time.sleep
                         \*   for, -1 if it did not call it

config == <<interval, back_off_max_interval, temp_access_path>>
supervisor == <<backoff_skip, max_backoff_skip>>
history == <<prev_report_time, elapsed, overslept, slept>>
steps == <<connects, acquired, wrote>>
vars == <<interval, back_off_max_interval, temp_access_path, backoff_skip,
          max_backoff_skip, runtime, bt, now, start, last_report_time, result,
          stdout, pc, failure, prev_report_time, elapsed, overslept,
          last_success, sleeps, connects, acquired, wrote, slept>>

\* lines 58-60 and 134-137
Init ==
  /\ interval \in Intervals
  /\ back_off_max_interval \in BackOffMaxIntervals
  /\ temp_access_path \in AccessPaths
  /\ backoff_skip = BaseSkip
  /\ max_backoff_skip =
       (back_off_max_interval * Scale) \div Max(interval, IntervalFloor)
  /\ runtime = 0
  /\ bt = 0
  /\ now = 0
  /\ start = 0
  /\ last_report_time = 0
  /\ result = 0
  /\ pc = "supervise"
  /\ failure = "none"
  /\ prev_report_time = -1
  /\ elapsed = 0
  /\ overslept = 0
  /\ last_success = -1
  /\ sleeps = 0
  /\ stdout = ""
  /\ connects = 0
  /\ acquired = FALSE
  /\ wrote = FALSE
  /\ slept = -1

\* line 139 (the call) and lines 78-79: a new frame of report_cpu_temps;
\* the epoch of the clock moves to the reading taken at line 78
CallSessionStaleReport ==
  /\ pc = "supervise"
  /\ now' = 0
  /\ start' = 0
  /\ last_report_time' = last_report_time - now
  /\ result' = 0
  /\ stdout' = ""
  /\ prev_report_time' = -1
  /\ last_success' = -1
  /\ elapsed' = 0
  /\ overslept' = 0
  /\ slept' = -1
  /\ connects' = 0
  /\ acquired' = FALSE
  /\ wrote' = FALSE
  /\ pc' = "connect"
  /\ UNCHANGED <<config, supervisor, runtime, bt, failure, sleeps>>
CallSession ==
  /\ pc = "supervise"
  /\ now' = 0
  /\ start' = 0
  /\ last_report_time' = 0
  /\ result' = 0
  /\ stdout' = ""
  /\ prev_report_time' = -1
  /\ last_success' = -1
  /\ elapsed' = 0
  /\ overslept' = 0
  /\ slept' = -1
  /\ connects' = 0
  /\ acquired' = FALSE
  /\ wrote' = FALSE
  /\ pc' = "connect"
  /\ UNCHANGED <<config, supervisor, runtime, bt, failure, sleeps>>

\* lines 80-88, no exception
ConnectOk ==
  /\ pc = "connect"
  /\ \E lat \in Latencies : now' = now + lat
  /\ failure' = "none"
  /\ connects' = connects + 1
  /\ pc' = "acquire"
  /\ UNCHANGED <<config, supervisor, runtime, bt, start, last_report_time,
                 result, stdout, history, last_success, sleeps, acquired,
                 wrote>>

\* lines 80-91, the client raises
ConnectFail ==
  /\ pc = "connect"
  /\ \E lat \in Latencies : now' = now + lat
  /\ \E e \in SinkErrors :
       IF e \in ConnectCaught
       THEN /\ runtime' = SessionRuntime(now', last_report_time, start)
            /\ pc' = "decide"
       ELSE /\ pc' = "crashed"
            /\ UNCHANGED runtime
  /\ failure' = "connection"
  /\ sleeps' = 0
  /\ connects' = connects + 1
  /\ UNCHANGED <<config, supervisor, bt, start, last_report_time, result,
                 stdout, history, last_success, acquired, wrote>>

\* lines 94-102, no exception; line 107-109 build the point from result
AcquireOk ==
  /\ pc = "acquire"
  /\ now - start < Horizon
  /\ \E lat \in Latencies : now' = now + lat
  /\ \E o \in SensorOutcomes(temp_access_path, stdout) :
       /\ o.exc = "none"
       /\ result' = o.value
       /\ stdout' = o.stdout
  /\ acquired' = TRUE
  /\ pc' = "pace"
  /\ UNCHANGED <<config, supervisor, runtime, bt, start, last_report_time,
                 failure, history, last_success, sleeps, connects, wrote>>

\* lines 94-105, an exception the except clause catches
AcquireFail ==
  /\ pc = "acquire"
  /\ \E lat \in Latencies : now' = now + lat
  /\ \E o \in SensorOutcomes(temp_access_path, stdout) :
       /\ o.exc \in SensorCaught
       /\ stdout' = o.stdout
  /\ runtime' = SessionRuntime(now', last_report_time, start)
  /\ failure' = "sensor"
  /\ sleeps' = 0
  /\ acquired' = TRUE
  /\ pc' = "decide"
  /\ UNCHANGED <<config, supervisor, bt, start, last_report_time, result,
                 history, last_success, connects, wrote>>

\* lines 94-102, an exception the except clause does not catch: it leaves
\* report_cpu_temps and reaches lines 149-152, which log and raise it again
AcquireRaise ==
  /\ pc = "acquire"
  /\ \E lat \in Latencies : now' = now + lat
  /\ \E o \in SensorOutcomes(temp_access_path, stdout) :
       /\ o.exc \notin SensorCaught \cup {"none"}
       /\ stdout' = o.stdout
  /\ failure' = "sensor"
  /\ sleeps' = 0
  /\ acquired' = TRUE
  /\ pc' = "crashed"
  /\ UNCHANGED <<config, supervisor, runtime, bt, start, last_report_time,
                 result, history, last_success, connects, wrote>>

\* lines 111-118
Pace ==
  /\ pc = "pace"
  /\ \E o \in Oversleeps :
       LET paced == last_report_time # start
           sleep_time == SleepTime(interval, now, last_report_time)
       IN /\ paced \/ o = 0
          /\ now' = IF paced THEN now + Max(0, sleep_time) + o ELSE now
          /\ overslept' = o
          /\ slept' = IF paced THEN Max(0, sleep_time) ELSE -1
  /\ last_report_time' = now'
  /\ elapsed' = now - last_report_time
  /\ prev_report_time' = IF last_success # -1 THEN last_report_time ELSE -1
  /\ pc' = "write"
  /\ UNCHANGED <<config, supervisor, runtime, bt, start, result, stdout,
                 failure, last_success, sleeps, steps>>

\* lines 119-121 and 125-130, the write returns
WriteOk ==
  /\ pc = "write"
  /\ \E lat \in Latencies : now' = now + lat
  /\ last_success' = last_report_time
  /\ wrote' = TRUE
  /\ pc' = "acquire"
  /\ UNCHANGED <<config, supervisor, runtime, bt, start, last_report_time,
                 result, stdout, failure, history, sleeps, connects,
                 acquired>>

\* lines 119-124, the write raises
WriteFail ==
  /\ pc = "write"
  /\ \E lat \in Latencies : now' = now + lat
  /\ \E e \in SinkErrors :
       IF e \in SinkCaught
       THEN /\ runtime' = SessionRuntime(now', last_report_time, start)
            /\ pc' = "decide"
       ELSE /\ pc' = "crashed"
            /\ UNCHANGED runtime
  /\ failure' = "sink"
  /\ sleeps' = 0
  /\ wrote' = TRUE
  /\ UNCHANGED <<config, supervisor, bt, start, last_report_time, result,
                 stdout, history, last_success, connects, acquired>>

\* lines 140-145
Decide ==
  /\ pc = "decide"
  /\ \E n \in NextBackoff(runtime, backoff_skip, max_backoff_skip, interval) :
       /\ backoff_skip' = n[1]
       /\ max_backoff_skip' = n[2]
  /\ pc' = "sleep"
  /\ UNCHANGED <<config, runtime, bt, now, start, last_report_time, result,
                 stdout, failure, history, last_success, sleeps, steps>>

\* lines 146-148; time.sleep returns after at least bt
BackoffSleepInterval ==
  /\ pc = "sleep"
  /\ bt' = backoff_skip * interval
  /\ \E o \in Oversleeps : now' = now + interval + o
  /\ sleeps' = sleeps + 1
  /\ pc' = "supervise"
  /\ UNCHANGED <<config, supervisor, runtime, start, last_report_time, result,
                 stdout, failure, history, last_success, steps>>
BackoffSleep ==
  /\ pc = "sleep"
  /\ bt' = backoff_skip * interval
  /\ \E o \in Oversleeps : now' = now + CeilDiv(bt', Scale) + o
  /\ sleeps' = sleeps + 1
  /\ pc' = "supervise"
  /\ UNCHANGED <<config, supervisor, runtime, start, last_report_time, result,
                 stdout, failure, history, last_success, steps>>

Next ==
  \/ CallSession
  \/ ConnectOk
  \/ ConnectFail
  \/ AcquireOk
  \/ AcquireFail
  \/ AcquireRaise
  \/ Pace
  \/ WriteOk
  \/ WriteFail
  \/ Decide
  \/ BackoffSleep

Spec == Init /\ [][Next]_vars

\* every sleep, call and session step that is started completes
FairSpec == Spec /\ WF_vars(Next)

\* ---- properties ----

\* C1: every backoff delay the supervisor sleeps (backoff_skip * interval)
\* is at most back_off_max_interval.
C1_DelayWithinMax ==
  (pc = "supervise" /\ sleeps > 0) => bt <= back_off_max_interval * Scale

\* C2: when a session returns runtime 0 while the backoff delay is below the
\* maximum, the decision leaves a strictly greater backoff_skip, and one whose
\* delay is at most back_off_max_interval.
C2_ImmediateFailureGrows ==
  [][(/\ pc = "decide"
      /\ runtime = 0
      /\ backoff_skip * interval < back_off_max_interval * Scale)
     => (/\ backoff_skip' > backoff_skip
         /\ backoff_skip' * interval <= back_off_max_interval * Scale)]_vars

\* C3: in every reachable state backoff_skip is at least 2.0.
C3_SkipAtLeastBase == backoff_skip >= BaseSkip

\* a session failed at once, the growth branch ran (it moved max_backoff_skip
\* off its configured value) and the delay is about to be slept
C3_Witness ==
  /\ pc = "sleep"
  /\ runtime = 0
  /\ backoff_skip >= BaseSkip
  /\ max_backoff_skip #
       (back_off_max_interval * Scale) \div Max(interval, IntervalFloor)

\* C4: when a session returns a runtime greater than backoff_skip * interval,
\* the decision leaves backoff_skip at exactly 2.0.
C4_LongRunResets ==
  [][(pc = "decide" /\ runtime * Scale > backoff_skip * interval)
     => backoff_skip' = BaseSkip]_vars

\* a session that ran longer than the backoff window has been decided
C4_Witness ==
  /\ pc = "sleep"
  /\ runtime * Scale > BaseSkip * interval
  /\ backoff_skip = BaseSkip

\* C5: a session ended by a sink failure after at least one successful write
\* returns the time from its start to its last successful write.
C5_SinkFailureReturnsLastSuccess ==
  (pc = "decide" /\ failure = "sink" /\ last_success # -1)
    => runtime = last_success - start

\* C6: after a sink failure the process has not terminated: the session
\* returns to the supervisor, which sleeps backoff_skip * interval exactly
\* once before the next session is called.
C6_SinkFailureRestarts ==
  failure = "sink" =>
    /\ pc \in {"decide", "sleep", "supervise", "connect"}
    /\ pc \in {"decide", "sleep"} => sleeps = 0
    /\ pc \in {"supervise", "connect"} =>
         (sleeps = 1 /\ bt = backoff_skip * interval)

\* a new session has been called after a sink failure and one backoff sleep
C6_Witness ==
  /\ pc = "connect"
  /\ failure = "sink"
  /\ sleeps = 1
  /\ bt = backoff_skip * interval

\* C7: no failure of the sensor acquisition step terminates the process.
C7_SensorFailureEndsOnlySession == failure = "sensor" => pc # "crashed"

\* C8: two consecutive writes of a session are at least interval apart.
C8_WritesAtLeastIntervalApart ==
  (pc = "write" /\ prev_report_time # -1)
    => last_report_time - prev_report_time >= interval

\* C9 as stated: two consecutive writes of a session are exactly interval
\* apart, whatever time the write and the following acquisition took.
C9_WritesExactlyIntervalApart ==
  (pc = "write" /\ prev_report_time # -1)
    => last_report_time - prev_report_time = interval

\* C9 as amended: two consecutive writes of a session are max(interval, L)
\* plus the oversleep of time.sleep apart, L being the time the earlier write
\* and the following acquisition took, when the earlier write's clock reading
\* differs from the session's start reading; they are L apart when it equals
\* it (no pacing sleep is made then).
C9_DriftCorrectedSpacing ==
  (pc = "write" /\ prev_report_time # -1)
    => last_report_time - prev_report_time =
         IF prev_report_time # start
         THEN Max(interval, elapsed) + overslept
         ELSE elapsed

\* the write and the acquisition took some of the interval, the pacing sleep
\* took the rest
C9_Witness ==
  /\ pc = "write"
  /\ prev_report_time \notin {-1, start}
  /\ elapsed > 0
  /\ elapsed < interval
  /\ last_report_time - prev_report_time = interval

\* C10: after every session end, whatever the failure class, a new session
\* is eventually called.
C10_SupervisorNeverStops ==
  (pc \in {"decide", "crashed"}) ~> (pc = "connect")

\* C11: a session whose connection setup fails returns 0 at once: it tried
\* the connection once and made no sensor acquisition and no write.
C11_ConnectFailureReturnsZero ==
  failure = "connection" =>
    /\ pc # "crashed"
    /\ pc \in {"decide", "sleep", "supervise"} =>
         (runtime = 0 /\ connects = 1 /\ ~acquired /\ ~wrote)

\* the connection setup took time and failed, the session has returned
C11_Witness ==
  /\ pc = "decide"
  /\ failure = "connection"
  /\ now > start
  /\ runtime = 0
  /\ connects = 1

\* C12: the keys of the path are applied in order: output {"a":{"b":42.5}}
\* with path a, b gives 42.5; with path a, c it gives a KeyError, a sensor
\* failure that ends the session with no value.
C12_KeyPathResolution ==
  /\ ReadSensor("{\"a\":{\"b\":42.5}}", <<"a", "b">>) =
       [exc |-> "none", value |-> 425]
  /\ ReadSensor("{\"a\":{\"b\":42.5}}", <<"a", "c">>).exc = "KeyError"
  /\ (/\ pc = "pace"
      /\ stdout = "{\"a\":{\"b\":42.5}}"
      /\ temp_access_path = <<"a", "b">>) => result = 425
  /\ (/\ stdout = "{\"a\":{\"b\":42.5}}"
      /\ temp_access_path = <<"a", "c">>)
       => (pc \in {"decide", "sleep", "supervise"} /\ failure = "sensor")

\* the sample output was read with a path whose last key is absent, and the
\* session has ended
C12_Witness ==
  /\ pc = "decide"
  /\ failure = "sensor"
  /\ stdout = "{\"a\":{\"b\":42.5}}"
  /\ temp_access_path = <<"a", "c">>

\* C13: the pacing step calls time.sleep on no first iteration and on every
\* later iteration, with max(0, interval - time since the previous report).
C13_PacingSkippedOnlyFirst ==
  pc = "write" =>
    slept = IF prev_report_time = -1 THEN -1 ELSE Max(0, interval - elapsed)

\* C14: a session ended by a sensor failure returns the time from its start
\* to its last successful write, and 0 when it has written nothing.
C14_SensorFailureReturnsLastReport ==
  (pc = "decide" /\ failure = "sensor")
    => runtime = IF last_success # -1 THEN last_success - start ELSE 0

\* the sensor failed some time after a successful write that was itself
\* made some time after the session's start
C14_Witness ==
  /\ pc = "decide"
  /\ failure = "sensor"
  /\ last_success > start
  /\ now > last_success
  /\ runtime = last_success - start

C16_RestartKeepsWritesApart ==
  /\ (pc = "supervise" /\ sleeps > 0 /\ wrote) =>
       /\ (now - last_report_time) * Scale >= bt
       /\ bt >= interval * Scale
  /\ pc = "write" => last_report_time >= start

\* a session whose last write failed at once has been followed by a backoff
\* sleep of exactly the delay
C16_Witness ==
  /\ pc = "supervise"
  /\ sleeps = 1
  /\ wrote
  /\ failure = "sink"
  /\ (now - last_report_time) * Scale = bt

\* C17: every session starts with last_report_time equal to its own start,
\* and the runtime it returns is last_report_time - start of that session,
\* which is at least 0 and at most the time the session took.
C17_SessionStateIsFresh ==
  /\ pc = "connect" => last_report_time = start
  /\ pc = "decide" =>
       /\ runtime = last_report_time - start
       /\ 0 <= runtime
       /\ runtime <= now - start

\* a session called after an earlier one (a backoff has been slept) has
\* returned a runtime between 0 and the time it took
C17_Witness ==
  /\ pc = "decide"
  /\ bt > 0
  /\ runtime > 0
  /\ runtime < now - start

====
